---- MODULE Spec2Model ----
(***************************************************************************)
(* Shape inference of the ONNX dialect Sequence operations                 *)
(* (src/Dialect/ONNX/ONNXOps/Sequence/Sequence.cpp).                       *)
(*                                                                         *)
(* A tensor type is a record [elementType, hasRank, shape]; a dimension of *)
(* -1 is a dynamic dimension.  A seq type is a record [elementType,        *)
(* length] whose elementType is a tensor type; a length of -1 is an        *)
(* unknown length.  These are the encodings the source uses.               *)
(***************************************************************************)
EXTENDS Integers, Sequences, FiniteSets, TLC

\* ------------------------------------------------------------- bounds
MaxRank == 2
MaxDim == 1
MaxInputs == 2
MaxLen == 2

\* ------------------------------------------------------------- types
F32 == "f32"
I64 == "i64"
DTypes == {F32, I64}

\* onnx::TensorProto_DataType codes of the two scalar types of the model
ONNX_FLOAT == 1
ONNX_INT64 == 7

DimSizes == {-1} \cup (0..MaxDim)
Shapes == UNION {[1..r -> DimSizes] : r \in 0..MaxRank}

RankedTensorType(dims, elementType) ==
  [elementType |-> elementType, hasRank |-> TRUE, shape |-> dims]

UnrankedTensorType(elementType) ==
  [elementType |-> elementType, hasRank |-> FALSE, shape |-> <<>>]

SeqType(elementType, length) ==
  [elementType |-> elementType, length |-> length]

TensorTypes ==
  {RankedTensorType(s, e) : s \in Shapes, e \in DTypes}
    \cup {UnrankedTensorType(e) : e \in DTypes}

Lengths == (-1)..MaxLen
SeqTypes == {SeqType(t, n) : t \in TensorTypes, n \in Lengths}

\* placeholders for an operand or a result an operation does not have
NoTensor == [elementType |-> "none", hasRank |-> FALSE, shape |-> <<>>]
NoSeq == [elementType |-> NoTensor, length |-> -1]
NoAttr == [present |-> FALSE, value |-> 0]
DTypeAttrs == {NoAttr} \cup {[present |-> TRUE, value |-> c] : c \in {ONNX_FLOAT, ONNX_INT64}}

getRank(t) == Len(t.shape)

\* ------------------------------------------------------------- support
\* The loop of sequenceAddType over the dimensions 0..rank-1.
RECURSIVE addDims(_, _, _, _)
addDims(acc, add, i, dims) ==
  IF i > Len(acc) THEN dims
  ELSE addDims(acc, add, i + 1,
               Append(dims, IF acc[i] # add[i] THEN -1 ELSE add[i]))

\* sequenceAddType that keeps the accumulated type when the ranks differ.
sequenceAddType_KeepsAccumulatedOnRankMismatch(accumulatedType, additionalType) ==
  IF ~accumulatedType.hasRank THEN accumulatedType
  ELSE IF ~additionalType.hasRank THEN additionalType
  ELSE IF getRank(accumulatedType) # getRank(additionalType)
    THEN accumulatedType
  ELSE RankedTensorType(
         addDims(accumulatedType.shape, additionalType.shape, 1, <<>>),
         accumulatedType.elementType)

\* sequenceAddType that takes the dimensions of the additional type.
sequenceAddType_TakesAdditionalDims(accumulatedType, additionalType) ==
  IF ~accumulatedType.hasRank THEN accumulatedType
  ELSE IF ~additionalType.hasRank THEN additionalType
  ELSE IF getRank(accumulatedType) # getRank(additionalType)
    THEN UnrankedTensorType(accumulatedType.elementType)
  ELSE RankedTensorType(additionalType.shape, accumulatedType.elementType)

sequenceAddType(accumulatedType, additionalType) ==
  IF ~accumulatedType.hasRank THEN accumulatedType
  ELSE IF ~additionalType.hasRank THEN additionalType
  ELSE IF getRank(accumulatedType) # getRank(additionalType)
    THEN UnrankedTensorType(accumulatedType.elementType)
  ELSE RankedTensorType(
         addDims(accumulatedType.shape, additionalType.shape, 1, <<>>),
         accumulatedType.elementType)

\* The result of a rule: whether it succeeded, its diagnostic, and the type
\* of the operation's result after the call.
Success(type) == [ok |-> TRUE, error |-> "", type |-> type]
Failure(msg, type) == [ok |-> FALSE, error |-> msg, type |-> type]

\* ------------------------------------------------------------- SequenceAtOp
\* SequenceAt that does not test the current result type.
ONNXSequenceAtOp_inferShapes_Overwrites(input_sequence, outputType) ==
  IF input_sequence.elementType.hasRank
    THEN Success(input_sequence.elementType)
    ELSE Success(outputType)

ONNXSequenceAtOp_inferShapes(input_sequence, outputType) ==
  IF input_sequence.elementType.hasRank /\ ~outputType.hasRank
    THEN Success(input_sequence.elementType)
    ELSE Success(outputType)

\* ------------------------------------------------------------- SequenceConstructOp
\* The loop of ONNXSequenceConstructOp::inferShapes over types[1..size-1]
\* (1-based here: types[2..Len]).
RECURSIVE constructLoop(_, _, _)
constructLoop(types, i, seqTensorType) ==
  IF i > Len(types) THEN seqTensorType
  ELSE constructLoop(types, i + 1, sequenceAddType(seqTensorType, types[i]))

\* SequenceConstruct whose loop stops one input early.
ONNXSequenceConstructOp_inferShapes_SkipsLast(inputs, resultType) ==
  Success(SeqType(constructLoop(SubSeq(inputs, 1, Len(inputs) - 1), 2, inputs[1]),
                  Len(inputs)))

ONNXSequenceConstructOp_inferShapes(inputs, resultType) ==
  Success(SeqType(constructLoop(inputs, 2, inputs[1]), Len(inputs)))

\* ------------------------------------------------------------- SequenceEmptyOp
convertONNXTypeToMLIRType(code) ==
  CASE code = ONNX_FLOAT -> F32
    [] code = ONNX_INT64 -> I64
    [] OTHER -> "none"

\* The scalar type SequenceEmpty's verifier resolves from the dtype attribute.
resolvedElementType(dtypeAttr) ==
  IF dtypeAttr.present THEN convertONNXTypeToMLIRType(dtypeAttr.value) ELSE F32

\* SequenceEmpty verifier that compares nothing.
ONNXSequenceEmptyOp_verify_NoCheck(dtypeAttr, resultType) ==
  TRUE

ONNXSequenceEmptyOp_verify(dtypeAttr, resultType) ==
  resultType.elementType.elementType = resolvedElementType(dtypeAttr)

ONNXSequenceEmptyOp_inferShapes(resultType) ==
  Success(SeqType(resultType.elementType, 0))

\* ------------------------------------------------------------- SequenceEraseOp
\* SequenceErase without the test for an empty input.
ONNXSequenceEraseOp_inferShapes_NoEmptyCheck(input_sequence, resultType) ==
  Success(SeqType(input_sequence.elementType,
                  IF input_sequence.length = -1 THEN -1
                  ELSE input_sequence.length - 1))

\* SequenceErase that reads its own result type instead of its operand's.
ONNXSequenceEraseOp_inferShapes_ReadsResult(input_sequence, resultType) ==
  IF resultType.length = 0
    THEN Failure("SequenceErase from an empty seq", resultType)
    ELSE Success(SeqType(resultType.elementType,
                         IF resultType.length = -1 THEN -1 ELSE resultType.length - 1))

ONNXSequenceEraseOp_inferShapes(input_sequence, resultType) ==
  IF input_sequence.length = 0
    THEN Failure("SequenceErase from an empty seq", resultType)
    ELSE Success(SeqType(input_sequence.elementType,
                         IF input_sequence.length = -1 THEN -1
                         ELSE input_sequence.length - 1))

\* ------------------------------------------------------------- SequenceInsertOp
\* SequenceInsert verifier that compares nothing.
ONNXSequenceInsertOp_verify_NoCheck(input_sequence, tensor) ==
  TRUE

ONNXSequenceInsertOp_verify(input_sequence, tensor) ==
  input_sequence.elementType.elementType = tensor.elementType

\* SequenceInsert without the branch for an empty input.
ONNXSequenceInsertOp_inferShapes_AlwaysMerges(input_sequence, tensor, resultType) ==
  Success(SeqType(sequenceAddType(input_sequence.elementType, tensor),
                  IF input_sequence.length = -1 THEN -1
                  ELSE input_sequence.length + 1))

ONNXSequenceInsertOp_inferShapes(input_sequence, tensor, resultType) ==
  IF input_sequence.length = 0
    THEN Success(SeqType(tensor, 1))
    ELSE Success(SeqType(sequenceAddType(input_sequence.elementType, tensor),
                         IF input_sequence.length = -1 THEN -1
                         ELSE input_sequence.length + 1))

\* ------------------------------------------------------------- SequenceLengthOp
\* SequenceLength that replaces only an unranked result type.
ONNXSequenceLengthOp_inferShapes_KeepsRanked(input_sequence, outputTy) ==
  IF ~outputTy.hasRank
    THEN Success(RankedTensorType(<<>>, I64))
    ELSE Success(outputTy)

ONNXSequenceLengthOp_inferShapes(input_sequence, outputTy) ==
  IF ~outputTy.hasRank \/ getRank(outputTy) # 0
    THEN Success(RankedTensorType(<<>>, I64))
    ELSE Success(outputTy)

\* ------------------------------------------------------------- state
VARIABLES
  phase,            \* "idle": no rule in progress; "applied": a rule has run
  kind,             \* the operation the last rule belongs to
  operands,         \* the operand types (and attribute) of that operation
  before,           \* the operation's result type before the latest call
  result,           \* the operation's result type after the latest call
  outcome,          \* [ok, error] of the latest call
  runs,             \* how many times the rule has run on this operation
  cur,              \* the type of the sequence value the next operation uses
  origin,           \* what produced that sequence value
  accumulatedType,  \* sequenceAddType on its own: first argument
  additionalType,   \*   second argument
  merged,           \*   its return value
  mergeDone         \*   whether it has returned

opVars == <<phase, kind, operands, before, result, outcome, runs, cur, origin>>
mergeVars == <<accumulatedType, additionalType, merged, mergeDone>>
vars == <<opVars, mergeVars>>

NoOperands ==
  [input_sequence |-> NoSeq, tensor |-> NoTensor, inputs |-> <<>>, dtypeAttr |-> NoAttr]

\* Non-empty operand lists of SequenceConstruct: tensors of one scalar type.
TensorTypesOf(e) == {t \in TensorTypes : t.elementType = e}
InputLists ==
  UNION {[1..n -> TensorTypesOf(e)] : n \in 1..MaxInputs, e \in DTypes}

\* The result type an operation on the sequence s is built with: the general
\* form seq<tensor<*xT>>, or the type of its input sequence.
DeclaredFor(s) == {SeqType(UnrankedTensorType(s.elementType.elementType), -1), s}

SeqProducing == {"SequenceEmpty", "SequenceConstruct", "SequenceInsert", "SequenceErase"}

\* One run of an operation's rule: its verifier, then its shape inference on
\* the operand types `ops` with `resultType` the operation's current result
\* type.  An operation whose verifier fails never reaches shape inference.
applyRule(k, ops, resultType) ==
  CASE k = "SequenceEmpty" ->
         IF ONNXSequenceEmptyOp_verify(ops.dtypeAttr, resultType)
           THEN ONNXSequenceEmptyOp_inferShapes(resultType)
           ELSE Failure("SequenceEmpty dtype() does not match the output type",
                        resultType)
    [] k = "SequenceConstruct" ->
         ONNXSequenceConstructOp_inferShapes(ops.inputs, resultType)
    [] k = "SequenceInsert" ->
         IF ONNXSequenceInsertOp_verify(ops.input_sequence, ops.tensor)
           THEN ONNXSequenceInsertOp_inferShapes(ops.input_sequence, ops.tensor,
                                                 resultType)
           ELSE Failure("Element types of the tensor in seqence and input have to be the same",
                        resultType)
    [] k = "SequenceErase" ->
         ONNXSequenceEraseOp_inferShapes(ops.input_sequence, resultType)
    [] k = "SequenceAt" ->
         ONNXSequenceAtOp_inferShapes(ops.input_sequence, resultType)
    [] k = "SequenceLength" ->
         ONNXSequenceLengthOp_inferShapes(ops.input_sequence, resultType)

\* The rule of operation k runs for the first time, on operand types ops and
\* declared result type `declared`.
FirstRun(k, ops, declared) ==
  LET r == applyRule(k, ops, declared) IN
    /\ phase = "idle"
    /\ phase' = "applied"
    /\ kind' = k
    /\ operands' = ops
    /\ before' = declared
    /\ result' = r.type
    /\ outcome' = [ok |-> r.ok, error |-> r.error]
    /\ runs' = 1
    /\ UNCHANGED mergeVars

Init ==
  /\ phase = "idle"
  /\ kind = "none"
  /\ operands = NoOperands
  /\ before = NoSeq
  /\ result = NoSeq
  /\ outcome = [ok |-> TRUE, error |-> ""]
  /\ runs = 0
  /\ cur = NoSeq
  /\ origin = "none"
  /\ accumulatedType = NoTensor
  /\ additionalType = NoTensor
  /\ merged = NoTensor
  /\ mergeDone = FALSE

\* ------------------------------------------------------------- operations
\* A sequence that enters as a parameter of the graph or of a region.
BlockArgument ==
  /\ phase = "idle"
  /\ cur = NoSeq
  /\ \E s \in SeqTypes : cur' = s
  /\ origin' = "argument"
  /\ UNCHANGED <<phase, kind, operands, before, result, outcome, runs>>
  /\ UNCHANGED mergeVars

SequenceEmptyOp ==
  /\ phase = "idle"
  /\ cur = NoSeq
  /\ \E a \in DTypeAttrs, declared \in SeqTypes :
       FirstRun("SequenceEmpty", [NoOperands EXCEPT !.dtypeAttr = a], declared)
  /\ origin' = "SequenceEmpty"
  /\ UNCHANGED cur

SequenceConstructOp ==
  /\ phase = "idle"
  /\ cur = NoSeq
  /\ \E l \in InputLists :
       FirstRun("SequenceConstruct", [NoOperands EXCEPT !.inputs = l],
                SeqType(UnrankedTensorType(l[1].elementType), -1))
  /\ origin' = "SequenceConstruct"
  /\ UNCHANGED cur

SequenceInsertOp ==
  /\ phase = "idle"
  /\ cur # NoSeq
  /\ cur.length < MaxLen
  /\ \E t \in TensorTypes, declared \in DeclaredFor(cur) :
       FirstRun("SequenceInsert",
                [NoOperands EXCEPT !.input_sequence = cur, !.tensor = t], declared)
  /\ UNCHANGED <<cur, origin>>

SequenceEraseOp ==
  /\ phase = "idle"
  /\ cur # NoSeq
  /\ \E declared \in DeclaredFor(cur) :
       FirstRun("SequenceErase", [NoOperands EXCEPT !.input_sequence = cur], declared)
  /\ UNCHANGED <<cur, origin>>

SequenceAtOp ==
  /\ phase = "idle"
  /\ cur # NoSeq
  /\ \E outputType \in TensorTypes :
       FirstRun("SequenceAt", [NoOperands EXCEPT !.input_sequence = cur], outputType)
  /\ UNCHANGED <<cur, origin>>

SequenceLengthOp ==
  /\ phase = "idle"
  /\ cur # NoSeq
  /\ \E outputTy \in TensorTypes :
       FirstRun("SequenceLength", [NoOperands EXCEPT !.input_sequence = cur], outputTy)
  /\ UNCHANGED <<cur, origin>>

\* The driver runs the same rule again on the operation, whose operand types
\* have not changed and whose result type is the one the first run left.
Reapply ==
  LET r == applyRule(kind, operands, result) IN
    /\ phase = "applied"
    /\ runs = 1
    /\ before' = result
    /\ result' = r.type
    /\ outcome' = [ok |-> r.ok, error |-> r.error]
    /\ runs' = 2
    /\ UNCHANGED <<phase, kind, operands, cur, origin>>
    /\ UNCHANGED mergeVars

\* The driver moves on: the result type of a sequence-producing operation
\* that succeeded is the type of the sequence its users read.
NextOp ==
  /\ phase = "applied"
  /\ phase' = "idle"
  /\ cur' = IF kind \in SeqProducing /\ outcome.ok THEN result ELSE cur
  /\ kind' = "none"
  /\ operands' = NoOperands
  /\ before' = NoSeq
  /\ result' = NoSeq
  /\ outcome' = [ok |-> TRUE, error |-> ""]
  /\ runs' = 0
  /\ UNCHANGED origin
  /\ UNCHANGED mergeVars

Next ==
  \/ BlockArgument
  \/ SequenceEmptyOp
  \/ SequenceConstructOp
  \/ SequenceInsertOp
  \/ SequenceEraseOp
  \/ SequenceAtOp
  \/ SequenceLengthOp
  \/ Reapply
  \/ NextOp

Spec == Init /\ [][Next]_vars

\* ------------------------------------------------------------- sequenceAddType alone
\* Every pair of tensor types of one scalar type (the function's asserted
\* precondition), then the call.
MergeInit ==
  /\ phase = "idle"
  /\ kind = "none"
  /\ operands = NoOperands
  /\ before = NoSeq
  /\ result = NoSeq
  /\ outcome = [ok |-> TRUE, error |-> ""]
  /\ runs = 0
  /\ cur = NoSeq
  /\ origin = "none"
  /\ accumulatedType \in TensorTypes
  /\ additionalType \in TensorTypes
  /\ accumulatedType.elementType = additionalType.elementType
  /\ merged = NoTensor
  /\ mergeDone = FALSE

CallSequenceAddType ==
  /\ ~mergeDone
  /\ merged' = sequenceAddType(accumulatedType, additionalType)
  /\ mergeDone' = TRUE
  /\ UNCHANGED <<accumulatedType, additionalType>>
  /\ UNCHANGED opVars

MergeNext == CallSequenceAddType

MergeSpec == MergeInit /\ [][MergeNext]_vars

\* ------------------------------------------------------------- properties
\* The vocabulary of the specification, read off the encodings.
IsUnranked(t) == ~t.hasRank
IsStatic(d) == d >= 0
IsDynamic(d) == d = -1
IsKnown(n) == n >= 0
IsUnknown(n) == n = -1

\* m is the join of a and b as the specification states it.
IsMergeOf(a, b, m) ==
  /\ m.elementType = a.elementType
  /\ (IsUnranked(a) \/ IsUnranked(b)) => IsUnranked(m)
  /\ (~IsUnranked(a) /\ ~IsUnranked(b) /\ getRank(a) # getRank(b)) => IsUnranked(m)
  /\ (~IsUnranked(a) /\ ~IsUnranked(b) /\ getRank(a) = getRank(b)) =>
       /\ ~IsUnranked(m)
       /\ getRank(m) = getRank(a)
       /\ \A i \in 1..getRank(a) :
            IF IsStatic(a.shape[i]) /\ IsStatic(b.shape[i]) /\ a.shape[i] = b.shape[i]
              THEN m.shape[i] = a.shape[i]
              ELSE IsDynamic(m.shape[i])

\* a is equal to or more specific than b: Static(v) below Dynamic in every
\* dimension, every ranked shape below Unranked.
AtLeastAsSpecific(a, b) ==
  /\ a.elementType = b.elementType
  /\ \/ IsUnranked(b)
     \/ /\ ~IsUnranked(a)
        /\ getRank(a) = getRank(b)
        /\ \A i \in 1..getRank(a) : IsDynamic(b.shape[i]) \/ a.shape[i] = b.shape[i]

\* The left fold of the join over a non-empty list, from its first element.
RECURSIVE LeftFold(_)
LeftFold(l) ==
  IF Len(l) = 1 THEN l[1]
  ELSE sequenceAddType(LeftFold(SubSeq(l, 1, Len(l) - 1)), l[Len(l)])

Applied(k) == phase = "applied" /\ kind = k

\* C1: for two tensor types of one scalar type, sequenceAddType returns an
\* unranked type if either is unranked or their ranks differ, and otherwise a
\* ranked type of the same rank whose dimension i is the common static size
\* when both are static and equal, and dynamic in every other case; the
\* scalar type is the common one.
C1_MergeIsJoin ==
  mergeDone => IsMergeOf(accumulatedType, additionalType, merged)

\* C1 witness: two ranked types of equal rank that agree on a static
\* dimension and disagree on another have been merged.
C1_Witness ==
  /\ mergeDone
  /\ accumulatedType.hasRank /\ additionalType.hasRank
  /\ getRank(accumulatedType) = getRank(additionalType)
  /\ \E i, j \in 1..getRank(accumulatedType) :
       /\ IsStatic(accumulatedType.shape[i])
       /\ accumulatedType.shape[i] = additionalType.shape[i]
       /\ IsStatic(accumulatedType.shape[j]) /\ IsStatic(additionalType.shape[j])
       /\ accumulatedType.shape[j] # additionalType.shape[j]
       /\ merged.shape[i] = accumulatedType.shape[i]
       /\ merged.shape[j] = -1

\* C2: a successful SequenceInsert into a sequence of length 0 yields exactly
\* the inserted tensor's type with length 1; into any other sequence it
\* yields the join of the sequence's element type and the tensor's type, with
\* length k+1 for a known length k > 0 and an unknown length for an unknown
\* one.
C2_InsertResult ==
  (Applied("SequenceInsert") /\ outcome.ok) =>
    LET in == operands.input_sequence
        t == operands.tensor
    IN IF in.length = 0
         THEN result = SeqType(t, 1)
         ELSE /\ IsMergeOf(in.elementType, t, result.elementType)
              /\ IsKnown(in.length) => result.length = in.length + 1
              /\ IsUnknown(in.length) => IsUnknown(result.length)

\* C2 witness: an insert into an empty sequence whose result is not the join
\* of the old element type and the tensor's type.
C2_Witness ==
  /\ Applied("SequenceInsert") /\ outcome.ok
  /\ operands.input_sequence.length = 0
  /\ result = SeqType(operands.tensor, 1)
  /\ ~IsMergeOf(operands.input_sequence.elementType, operands.tensor, result.elementType)

\* C3: SequenceErase on a sequence of length 0 fails and leaves the result
\* type as it was; on any other sequence it succeeds with the element type
\* of the input and length k-1 for a known length k > 0, unknown for unknown.
C3_EraseResult ==
  Applied("SequenceErase") =>
    LET in == operands.input_sequence
    IN IF in.length = 0
         THEN /\ ~outcome.ok
              /\ outcome.error = "SequenceErase from an empty seq"
              /\ result = before
         ELSE /\ outcome.ok
              /\ result.elementType = in.elementType
              /\ IsKnown(in.length) => result.length = in.length - 1 /\ IsKnown(result.length)
              /\ IsUnknown(in.length) => IsUnknown(result.length)

\* C3 witness: an erase from a sequence of length 0 has failed, its result
\* type still the declared one.
C3_Witness ==
  /\ Applied("SequenceErase")
  /\ operands.input_sequence.length = 0
  /\ ~outcome.ok
  /\ result = before
  /\ before \in DeclaredFor(operands.input_sequence)

\* C4: SequenceConstruct on n >= 1 tensor types of one scalar type yields
\* length n and the left fold of the join over the list.
C4_ConstructResult ==
  Applied("SequenceConstruct") =>
    /\ outcome.ok
    /\ result.length = Len(operands.inputs)
    /\ result.elementType = LeftFold(operands.inputs)
    /\ Len(operands.inputs) = 1 => result.elementType = operands.inputs[1]

\* C4 witness: a list of at least two inputs whose last input changes the
\* fold has been constructed.
C4_Witness ==
  /\ Applied("SequenceConstruct")
  /\ Len(operands.inputs) >= 2
  /\ result.length = Len(operands.inputs)
  /\ result.elementType.hasRank
  /\ result.elementType # LeftFold(SubSeq(operands.inputs, 1, Len(operands.inputs) - 1))

\* C5 as stated: a successful SequenceEmpty yields an unranked tensor of the
\* resolved scalar type and length 0, whatever result type it starts from.
C5_EmptyYieldsUnranked ==
  (Applied("SequenceEmpty") /\ outcome.ok) =>
    result = SeqType(UnrankedTensorType(resolvedElementType(operands.dtypeAttr)), 0)

\* C5 amended: a successful SequenceEmpty yields length 0 and keeps the
\* element type of the result type it starts from, whose scalar type is the
\* resolved one; the element type is unranked when it was unranked before.
C5_EmptyKeepsDeclared ==
  (Applied("SequenceEmpty") /\ outcome.ok) =>
    /\ result = SeqType(before.elementType, 0)
    /\ result.elementType.elementType = resolvedElementType(operands.dtypeAttr)
    /\ IsUnranked(before.elementType) =>
         result = SeqType(UnrankedTensorType(resolvedElementType(operands.dtypeAttr)), 0)

\* C5 witness: a SequenceEmpty with a dtype attribute, declared with a
\* ranked element type and a non-zero length, has succeeded.
C5_Witness ==
  /\ Applied("SequenceEmpty") /\ outcome.ok
  /\ runs = 1
  /\ operands.dtypeAttr.present
  /\ before.elementType.hasRank
  /\ before.length # 0
  /\ result.elementType.hasRank

\* C6 as stated: SequenceLength always leaves the result type equal to the
\* rank-0 tensor of 64-bit integer.
C6_LengthAlwaysI64Scalar ==
  Applied("SequenceLength") => result = RankedTensorType(<<>>, I64)

\* C6 amended: SequenceLength leaves a rank-0 result type as it is, whatever
\* its scalar type, and sets every other result type to the rank-0 tensor of
\* 64-bit integer.
C6_LengthResult ==
  Applied("SequenceLength") =>
    /\ outcome.ok
    /\ result.hasRank /\ getRank(result) = 0
    /\ (before.hasRank /\ getRank(before) = 0) => result = before
    /\ ~(before.hasRank /\ getRank(before) = 0) => result = RankedTensorType(<<>>, I64)

\* C6 witness: SequenceLength has run on a ranked result type of rank > 0
\* and a scalar type other than 64-bit integer.
C6_Witness ==
  /\ Applied("SequenceLength")
  /\ runs = 1
  /\ before.hasRank /\ getRank(before) > 0
  /\ before.elementType # I64
  /\ result = RankedTensorType(<<>>, I64)

C8_AtResult ==
  Applied("SequenceAt") =>
    /\ outcome.ok
    /\ (~IsUnranked(operands.input_sequence.elementType) /\ IsUnranked(before)) =>
         result = operands.input_sequence.elementType
    /\ ~(~IsUnranked(operands.input_sequence.elementType) /\ IsUnranked(before)) =>
         result = before

\* C8 witness: SequenceAt has run on a ranked result type that differs from
\* the ranked element type of the sequence, and has kept it.
C8_Witness ==
  /\ Applied("SequenceAt")
  /\ runs = 1
  /\ before.hasRank
  /\ operands.input_sequence.elementType.hasRank
  /\ before # operands.input_sequence.elementType
  /\ result = before

\* C9 as stated: in a chain that starts from SequenceEmpty or
\* SequenceConstruct, every successful SequenceInsert or SequenceErase
\* leaves an element type equal to or less specific than the one before it.
C9_NeverNarrows ==
  (/\ origin \in {"SequenceEmpty", "SequenceConstruct"}
   /\ phase = "applied" /\ kind \in {"SequenceInsert", "SequenceErase"}
   /\ outcome.ok) =>
    AtLeastAsSpecific(operands.input_sequence.elementType, result.elementType)

\* C9 amended: every successful SequenceErase, and every successful
\* SequenceInsert into a sequence whose length is not 0, leaves an element
\* type equal to or less specific than the one before it; a SequenceInsert
\* into a sequence of length 0 leaves the inserted tensor's type.
C9_WidensExceptFirstInsert ==
  (phase = "applied" /\ kind \in {"SequenceInsert", "SequenceErase"} /\ outcome.ok) =>
    IF kind = "SequenceInsert" /\ operands.input_sequence.length = 0
      THEN result.elementType = operands.tensor
      ELSE AtLeastAsSpecific(operands.input_sequence.elementType, result.elementType)

\* C9 witness: in a chain that starts from SequenceEmpty or
\* SequenceConstruct, an insert into a non-empty sequence has made a ranked
\* element type strictly less specific.
C9_Witness ==
  /\ origin \in {"SequenceEmpty", "SequenceConstruct"}
  /\ Applied("SequenceInsert") /\ outcome.ok
  /\ operands.input_sequence.length > 0
  /\ operands.input_sequence.elementType.hasRank
  /\ operands.tensor.hasRank
  /\ result.elementType.hasRank
  /\ result.elementType # operands.input_sequence.elementType

\* C10: a rule run a second time, on unchanged operand types and on the
\* result type its first run left, changes no type.
C10_Idempotent ==
  (phase = "applied" /\ runs = 2) => result = before

\* C10 witness: a SequenceErase declared with the type of its input has run
\* twice; the first run changed the result type, the second did not.
C10_Witness ==
  /\ Applied("SequenceErase") /\ runs = 2 /\ outcome.ok
  /\ operands.input_sequence.length > 0
  /\ result.length = operands.input_sequence.length - 1
  /\ result = before

====
